---- MODULE Spec2Model ----
(***************************************************************************)
(* Model of parse_taskbook.py: the task/answer pass                        *)
(* (extract_tasks_from_docx, extract_answers_from_line, create_task), the  *)
(* outline pass (extract_toc) and the driver (main, save_tasks).           *)
(*                                                                         *)
(* Text is a sequence of characters, each character a string.  TLA+        *)
(* strings are ASCII, so a Cyrillic letter is written as a token: "ru:a"   *)
(* is the lowercase Cyrillic a, "RU:O" the uppercase Cyrillic O.  Every    *)
(* other character is the one-character string itself ("1", ".", "a").     *)
(***************************************************************************)
EXTENDS Naturals, Sequences, FiniteSets

(***************************************************************************)
(* Character classes of the regular expressions.                           *)
(***************************************************************************)
\* \d
Digits == {"0", "1", "2", "3", "4", "5", "6", "7", "8", "9"}

\* \s
Spaces == {" ", "\t", "\n"}

\* [a-ya, yo] of the patterns, lowercase
CyrLower == {"ru:a", "ru:b", "ru:v", "ru:g", "ru:e", "ru:i", "ru:l", "ru:n",
             "ru:o", "ru:s", "ru:t", "ru:u", "ru:y"}

\* the uppercase letters re.IGNORECASE lets the same class match
CyrUpper == {"RU:O"}

\* [a-ya, yo] under re.IGNORECASE
CyrLetters == CyrLower \cup CyrUpper

IsDigit(c) == c \in Digits

IsSpace(c) == c \in Spaces

(***************************************************************************)
(* String helpers.                                                         *)
(***************************************************************************)
Min(a, b) == IF a <= b THEN a ELSE b

\* s[p..], empty when p is past the end
From(s, p) == SubSeq(s, p, Len(s))

\* the number of consecutive characters of s from position p that lie in
\* class: the length a greedy class+ or class* takes there
RECURSIVE Run(_, _, _)
Run(s, p, class) ==
    IF p <= Len(s) /\ s[p] \in class THEN 1 + Run(s, p + 1, class) ELSE 0

DigitRun(s, p) == Run(s, p, Digits)

SpaceRun(s, p) == Run(s, p, Spaces)

\* the character at p is c (false past the end)
At(s, p, c) == p >= 1 /\ p <= Len(s) /\ s[p] = c

\* the character at p lies in class (false past the end)
AtIn(s, p, class) == p >= 1 /\ p <= Len(s) /\ s[p] \in class

\* str.lstrip()
RECURSIVE LStrip(_)
LStrip(s) == IF s # <<>> /\ IsSpace(s[1]) THEN LStrip(Tail(s)) ELSE s

\* str.rstrip()
RECURSIVE RStrip(_)
RStrip(s) ==
    IF s # <<>> /\ IsSpace(s[Len(s)]) THEN RStrip(SubSeq(s, 1, Len(s) - 1)) ELSE s

\* str.strip()
Strip(s) == RStrip(LStrip(s))

\* re.sub(r'\s+', ' ', s): every run of whitespace becomes one space
RECURSIVE CollapseSpaces(_)
CollapseSpaces(s) ==
    IF s = <<>> THEN <<>>
    ELSE IF IsSpace(s[1])
         THEN <<" ">> \o CollapseSpaces(From(s, 1 + SpaceRun(s, 1)))
         ELSE <<s[1]>> \o CollapseSpaces(Tail(s))

\* line 139: re.sub(r'\s+', ' ', line.strip())
Normalize(s) == CollapseSpaces(Strip(s))

\* s begins with prefix
StartsWith(s, prefix) ==
    Len(s) >= Len(prefix) /\ SubSeq(s, 1, Len(prefix)) = prefix

\* sub in s
Contains(s, sub) ==
    \E p \in 1..(Len(s) + 1) : StartsWith(From(s, p), sub)

\* the position of the last "." of s, 0 when there is none
LastDot(s) ==
    IF \E p \in 1..Len(s) : s[p] = "."
    THEN CHOOSE p \in 1..Len(s) : s[p] = "." /\ \A q \in (p + 1)..Len(s) : s[q] # "."
    ELSE 0

(***************************************************************************)
(* The identifier grammar of the task pass (lines 12-17, 146-156).  A      *)
(* matcher yields a record whose ok field says whether the pattern         *)
(* matched; the other fields are the groups the code reads.                *)
(***************************************************************************)
NoMatch == [ok |-> FALSE]

\* what \s*(.+) captures from position p: the rest after the whitespace run
\* or, when only whitespace is left, its last character (the run gives one
\* character back); <<>> when nothing is left at all
TextAfter(s, p) ==
    LET sp == SpaceRun(s, p)
    IN  IF p + sp <= Len(s) THEN From(s, p + sp)
        ELSE IF sp >= 1 THEN <<s[Len(s)]>> ELSE <<>>

\* what \s+(.+) captures from position p; <<>> when it cannot match
TextAfterSpace(s, p) ==
    LET sp == SpaceRun(s, p)
    IN  IF sp >= 1 /\ p + sp <= Len(s) THEN From(s, p + sp)
        ELSE IF sp >= 2 THEN <<s[Len(s)]>> ELSE <<>>

\* line 146: re.match(r'^\d+\.\d+\.', line)
ThreeLevel(s) ==
    LET a == DigitRun(s, 1)
        b == DigitRun(s, a + 2)
    IN  a >= 1 /\ At(s, a + 1, ".") /\ b >= 1 /\ At(s, a + b + 2, ".")

\* line 149: re.match(r'^(\d+)\.\s*(.*)', line)
MainMatch(s) ==
    LET a == DigitRun(s, 1)
    IN  IF a >= 1 /\ At(s, a + 1, ".")
        THEN [ok |-> TRUE, main |-> SubSeq(s, 1, a),
              rest |-> From(s, a + 2 + SpaceRun(s, a + 2))]
        ELSE NoMatch

\* the header test with any main number in place of current_main_id: the
\* next line begins 'digits.digits.'
HeaderFollowsAnyNumber(main_id, next_line) ==
    LET t == Strip(next_line)
        a == DigitRun(t, 1)
        b == DigitRun(t, a + 2)
    IN  a >= 1 /\ At(t, a + 1, ".") /\ b >= 1 /\ At(t, a + b + 2, ".")

\* lines 154-157: re.match(rf'^{current_main_id}\.\d+\.', next_line.strip())
HeaderFollows(main_id, next_line) ==
    LET t == Strip(next_line)
        a == Len(main_id)
        b == DigitRun(t, a + 2)
    IN  StartsWith(t, main_id) /\ At(t, a + 1, ".") /\ b >= 1
        /\ At(t, a + b + 2, ".")

\* INLINE_LETTER, line 15: r'^(\d+)\.\s*([a-ya, yo])\)\s*(.+)', IGNORECASE
InlineLetter(s) ==
    LET a == DigitRun(s, 1)
        v == a + 2 + SpaceRun(s, a + 2)
        text == TextAfter(s, v + 2)
    IN  IF a >= 1 /\ At(s, a + 1, ".") /\ AtIn(s, v, CyrLetters)
           /\ At(s, v + 1, ")") /\ text # <<>>
        THEN [ok |-> TRUE, variant |-> <<s[v]>>, text |-> text]
        ELSE NoMatch

\* INLINE_NUMBERED, line 14: r'^(\d+)\.\s*(\d+)\)\s*(.+)'
InlineNumbered(s) ==
    LET a == DigitRun(s, 1)
        v == a + 2 + SpaceRun(s, a + 2)
        d == DigitRun(s, v)
        text == TextAfter(s, v + d + 1)
    IN  IF a >= 1 /\ At(s, a + 1, ".") /\ d >= 1 /\ At(s, v + d, ")")
           /\ text # <<>>
        THEN [ok |-> TRUE, variant |-> SubSeq(s, v, v + d - 1), text |-> text]
        ELSE NoMatch

\* NEW_LINE_LETTER, line 17: r'^\s*([a-ya, yo])\)\s*(.+)', IGNORECASE
NewLineLetter(s) ==
    LET v == 1 + SpaceRun(s, 1)
        text == TextAfter(s, v + 2)
    IN  IF AtIn(s, v, CyrLetters) /\ At(s, v + 1, ")") /\ text # <<>>
        THEN [ok |-> TRUE, variant |-> <<s[v]>>, text |-> text]
        ELSE NoMatch

\* NEW_LINE_NUMBERED, line 16: r'^\s*(\d+)\)\s+(.+)'
NewLineNumbered(s) ==
    LET v == 1 + SpaceRun(s, 1)
        d == DigitRun(s, v)
        text == TextAfterSpace(s, v + d + 1)
    IN  IF d >= 1 /\ At(s, v + d, ")") /\ text # <<>>
        THEN [ok |-> TRUE, variant |-> SubSeq(s, v, v + d - 1), text |-> text]
        ELSE NoMatch

(***************************************************************************)
(* The answer extractor (lines 84-112).  An answer mapping is a function   *)
(* from task identifiers to answer texts; an item list is the sequence of  *)
(* dictionary writes a line makes, in the order the code makes them.       *)
(***************************************************************************)
EmptyMap == [x \in {} |-> <<>>]

\* answers[k] = v
Put(m, k, v) == [x \in DOMAIN m \cup {k} |-> IF x = k THEN v ELSE m[x]]

\* the writes of items applied to m in order (lines 104 and 110)
RECURSIVE PutAll(_, _)
PutAll(m, items) ==
    IF items = <<>> THEN m
    ELSE PutAll(Put(m, items[1].key, items[1].value), Tail(items))

\* the lookahead of NUMBERED_VARIANT at position e: (?=(?:\s+\d+\)|$|\.|;))
LookNumbered(t, e) ==
    LET sp == SpaceRun(t, e)
        d == DigitRun(t, e + sp)
    IN  \/ e = Len(t) + 1
        \/ AtIn(t, e, {".", ";"})
        \/ sp >= 1 /\ d >= 1 /\ At(t, e + sp + d, ")")

\* the lookahead of LETTER_VARIANT without its first alternative: the next
\* variant marker does not end an answer
LookLetterNoNextMarker(t, e) ==
    \/ e = Len(t) + 1
    \/ AtIn(t, e, {".", ";"})

\* the lookahead of LETTER_VARIANT at position e:
\* (?=(?:\s+[a-ya, yo]\)|$|\.|;))
LookLetter(t, e) ==
    LET sp == SpaceRun(t, e)
    IN  \/ e = Len(t) + 1
        \/ AtIn(t, e, {".", ";"})
        \/ sp >= 1 /\ AtIn(t, e + sp, CyrLetters) /\ At(t, e + sp + 1, ")")

\* NUMBERED_VARIANT with (\d+) at position q: \) \s* ([^;.]+?) lookahead.
\* \s* takes the whole run and gives its last character to the lazy group
\* when the character after the run cannot start it.
NumberedFrom(t, q) ==
    LET d == DigitRun(t, q)
        r == q + d + 1
        sp == SpaceRun(t, r)
        full == r + sp <= Len(t) /\ t[r + sp] \notin {";", "."}
        b == IF full THEN r + sp ELSE r + sp - 1
        e == CHOOSE x \in (b + 1)..(Len(t) + 1) :
                 /\ LookNumbered(t, x)
                 /\ \A y \in (b + 1)..(x - 1) : ~LookNumbered(t, y)
    IN  IF d >= 1 /\ At(t, q + d, ")") /\ (full \/ sp >= 1)
        THEN [ok |-> TRUE, variant |-> SubSeq(t, q, q + d - 1),
              answer |-> SubSeq(t, b, e - 1), end |-> e]
        ELSE NoMatch

\* LETTER_VARIANT with the letter at position q: \) \s* ([^;]*?) lookahead
LetterFrom(t, q) ==
    LET b == q + 2 + SpaceRun(t, q + 2)
        e == CHOOSE x \in b..(Len(t) + 1) :
                 /\ LookLetter(t, x)
                 /\ \A y \in b..(x - 1) : ~LookLetter(t, y)
    IN  IF AtIn(t, q, CyrLetters) /\ At(t, q + 1, ")")
        THEN [ok |-> TRUE, variant |-> <<t[q]>>,
              answer |-> SubSeq(t, b, e - 1), end |-> e]
        ELSE NoMatch

\* one match attempt of NUMBERED_VARIANT at search position p: (?:^|\s+)
\* is the start of the text, else the whitespace run at p
NumberedAt(t, p) ==
    LET sp == SpaceRun(t, p)
    IN  IF p = 1 /\ NumberedFrom(t, 1).ok THEN NumberedFrom(t, 1)
        ELSE IF sp >= 1 THEN NumberedFrom(t, p + sp)
        ELSE NoMatch

\* one match attempt of LETTER_VARIANT at search position p
LetterAt(t, p) ==
    LET sp == SpaceRun(t, p)
    IN  IF p = 1 /\ LetterFrom(t, 1).ok THEN LetterFrom(t, 1)
        ELSE IF sp >= 1 THEN LetterFrom(t, p + sp)
        ELSE NoMatch

\* line 98: list(re.finditer(NUMBERED_VARIANT, answer_text)) from position p
RECURSIVE NumberedVariants(_, _)
NumberedVariants(t, p) ==
    IF p > Len(t) THEN <<>>
    ELSE IF NumberedAt(t, p).ok
         THEN <<NumberedAt(t, p)>> \o NumberedVariants(t, NumberedAt(t, p).end)
         ELSE NumberedVariants(t, p + 1)

\* line 98: list(re.finditer(LETTER_VARIANT, answer_text)) from position p
RECURSIVE LetterVariants(_, _)
LetterVariants(t, p) ==
    IF p > Len(t) THEN <<>>
    ELSE IF LetterAt(t, p).ok
         THEN <<LetterAt(t, p)>> \o LetterVariants(t, LetterAt(t, p).end)
         ELSE LetterVariants(t, p + 1)

\* line 87: the split point of r'(?<=\.)\s+(?=\d+\.)' at position p
SplitAt(s, p) ==
    LET sp == SpaceRun(s, p)
        d == DigitRun(s, p + sp)
    IN  At(s, p - 1, ".") /\ sp >= 1 /\ d >= 1 /\ At(s, p + sp + d, ".")

\* line 87: re.split(r'(?<=\.)\s+(?=\d+\.)', line), the current part
\* starting at start and the search at p
RECURSIVE SplitParts(_, _, _)
SplitParts(s, start, p) ==
    IF p > Len(s) THEN <<From(s, start)>>
    ELSE IF SplitAt(s, p)
         THEN <<SubSeq(s, start, p - 1)>>
              \o SplitParts(s, p + SpaceRun(s, p), p + SpaceRun(s, p))
         ELSE SplitParts(s, start, p + 1)

\* line 90: re.match(r'(\d+)\.(.+)', part)
TaskMatch(part) ==
    LET a == DigitRun(part, 1)
    IN  IF a >= 1 /\ At(part, a + 1, ".") /\ Len(part) >= a + 2
        THEN [ok |-> TRUE, task_num |-> SubSeq(part, 1, a),
              answer_text |-> Strip(From(part, a + 2))]
        ELSE NoMatch

\* lines 107-109: re.search(r'^\s*[a-ya, yo, 0-9]\)', answer_text, IGNORECASE)
StartsWithMarker(t) ==
    LET v == 1 + SpaceRun(t, 1)
    IN  AtIn(t, v, CyrLetters \cup Digits) /\ At(t, v + 1, ")")

\* line 110: re.sub(r'\.$', '', answer_text).strip()
StripFinalDot(t) ==
    Strip(IF At(t, Len(t), ".") THEN SubSeq(t, 1, Len(t) - 1) ELSE t)

\* lines 100-104: the writes for the matches of one variant pattern
VariantItems(task_num, variants) ==
    [k \in 1..Len(variants) |->
        [key |-> task_num \o <<".">> \o variants[k].variant,
         value |-> Strip(variants[k].answer)]]

\* PartItems with the letter pattern tried also after the numbered pattern
\* has matched
PartItemsBothPatterns(part) ==
    LET m == TaskMatch(part)
        t == m.answer_text
        numbered == NumberedVariants(t, 1)
        letter == LetterVariants(t, 1)
    IN  IF ~m.ok THEN <<>>
        ELSE IF numbered # <<>> \/ letter # <<>>
             THEN VariantItems(m.task_num, numbered)
                     \o VariantItems(m.task_num, letter)
        ELSE IF t # <<>> /\ ~StartsWithMarker(t)
             THEN <<[key |-> m.task_num, value |-> StripFinalDot(t)]>>
             ELSE <<>>

\* lines 90-110: the writes one part of the line makes
PartItems(part) ==
    LET m == TaskMatch(part)
        t == m.answer_text
        numbered == NumberedVariants(t, 1)
        letter == LetterVariants(t, 1)
    IN  IF ~m.ok THEN <<>>
        ELSE IF numbered # <<>> THEN VariantItems(m.task_num, numbered)
        ELSE IF letter # <<>> THEN VariantItems(m.task_num, letter)
        ELSE IF t # <<>> /\ ~StartsWithMarker(t)
             THEN <<[key |-> m.task_num, value |-> StripFinalDot(t)]>>
             ELSE <<>>

\* lines 89-110: the writes of all the parts, in order
RECURSIVE PartsItems(_)
PartsItems(parts) ==
    IF parts = <<>> THEN <<>>
    ELSE PartItems(parts[1]) \o PartsItems(Tail(parts))

\* extract_answers_from_line as the list of its writes
AnswerItems(line) == PartsItems(SplitParts(line, 1, 1))

\* extract_answers_from_line, lines 84-112
extract_answers_from_line(line) == PutAll(EmptyMap, AnswerItems(line))

\* an update in which the entries m already has are kept
UpdateKeepingFirst(m, n) ==
    [x \in DOMAIN m \cup DOMAIN n |-> IF x \in DOMAIN m THEN m[x] ELSE n[x]]

\* dict.update, line 194: the entries of n replace and extend those of m
Update(m, n) ==
    [x \in DOMAIN m \cup DOMAIN n |-> IF x \in DOMAIN n THEN n[x] ELSE m[x]]

(***************************************************************************)
(* The task pass (lines 115-201).                                          *)
(***************************************************************************)
\* line 141: 'Otvety i sovety', the heading that opens the answers section
ANSWERS_HEADING ==
    <<"RU:O", "ru:t", "ru:v", "ru:e", "ru:t", "ru:y", " ", "ru:i", " ",
      "ru:s", "ru:o", "ru:v", "ru:e", "ru:t", "ru:y">>

\* line 122: 'Otsutstvuet', the answer of a task that has none
NO_ANSWER ==
    <<"RU:O", "ru:t", "ru:s", "ru:u", "ru:t", "ru:s", "ru:t", "ru:v", "ru:u",
      "ru:e", "ru:t">>

\* create_task that marks every text as nested, main tasks included
create_taskAlwaysNested(main_id, variant, task_text, is_subtask) ==
    [id_tasks_book |-> IF variant # <<>> THEN main_id \o <<".">> \o variant
                       ELSE main_id,
     task |-> <<"\t">> \o task_text,
     answer |-> NO_ANSWER,
     classes |-> <<"5", ";", "6">>,
     topic_id |-> 1,
     level |-> 1]

\* create_task, lines 115-126; variant <<>> is None
create_task(main_id, variant, task_text, is_subtask) ==
    [id_tasks_book |-> IF variant # <<>> THEN main_id \o <<".">> \o variant
                       ELSE main_id,
     task |-> IF is_subtask THEN <<"\t">> \o task_text ELSE task_text,
     answer |-> NO_ANSWER,
     classes |-> <<"5", ";", "6">>,
     topic_id |-> 1,
     level |-> 1]

\* line 132: [p.text.strip() for p in doc.paragraphs if p.text.strip()]
RECURSIVE NonEmptyLines(_)
NonEmptyLines(paras) ==
    IF paras = <<>> THEN <<>>
    ELSE IF Strip(paras[1]) # <<>>
         THEN <<Strip(paras[1])>> \o NonEmptyLines(Tail(paras))
         ELSE NonEmptyLines(Tail(paras))

\* MainLine that sets current_main_id only where it emits a task
MainLineSetsIdOnEmit(st, ls, k, line, m) ==
    LET suffix == Strip(m.rest)
        is_header == k + 1 <= Len(ls) /\ HeaderFollows(m.main, ls[k + 1])
        emit(task) == [st EXCEPT !.current_main_id = m.main,
                                 !.tasks = Append(st.tasks, task)]
    IN  IF is_header THEN st
        ELSE IF InlineLetter(line).ok
             THEN emit(create_task(m.main, InlineLetter(line).variant,
                                   Strip(InlineLetter(line).text), TRUE))
        ELSE IF InlineNumbered(line).ok
             THEN emit(create_task(m.main, InlineNumbered(line).variant,
                                   Strip(InlineNumbered(line).text), TRUE))
        ELSE IF suffix # <<>>
             THEN emit(create_task(m.main, <<>>, suffix, FALSE))
        ELSE st

\* lines 149-178: a line that begins 'digits.'; m is its main_match
MainLine(st, ls, k, line, m) ==
    LET suffix == Strip(m.rest)
        is_header == k + 1 <= Len(ls) /\ HeaderFollows(m.main, ls[k + 1])
        st1 == [st EXCEPT !.current_main_id = m.main]
        emit(task) == [st1 EXCEPT !.tasks = Append(st.tasks, task)]
    IN  IF is_header THEN st1
        ELSE IF InlineLetter(line).ok
             THEN emit(create_task(m.main, InlineLetter(line).variant,
                                   Strip(InlineLetter(line).text), TRUE))
        ELSE IF InlineNumbered(line).ok
             THEN emit(create_task(m.main, InlineNumbered(line).variant,
                                   Strip(InlineNumbered(line).text), TRUE))
        ELSE IF suffix # <<>>
             THEN emit(create_task(m.main, <<>>, suffix, FALSE))
        ELSE st1

\* VariantLine without the test of current_main_id: a sub-variant line is
\* emitted under whatever the register holds, None included
VariantLineNoMainCheck(st, line) ==
    LET emit(task) == [st EXCEPT !.tasks = Append(st.tasks, task)]
    IN  IF NewLineLetter(line).ok
        THEN emit(create_task(st.current_main_id, NewLineLetter(line).variant,
                              Strip(NewLineLetter(line).text), TRUE))
        ELSE IF NewLineNumbered(line).ok
        THEN emit(create_task(st.current_main_id, NewLineNumbered(line).variant,
                              Strip(NewLineNumbered(line).text), TRUE))
        ELSE st

\* VariantLine that forgets the main task on a line no pattern matches
VariantLineResettingMain(st, line) ==
    LET emit(task) == [st EXCEPT !.tasks = Append(st.tasks, task)]
    IN  IF NewLineLetter(line).ok /\ st.current_main_id # <<>>
        THEN emit(create_task(st.current_main_id, NewLineLetter(line).variant,
                              Strip(NewLineLetter(line).text), TRUE))
        ELSE IF NewLineNumbered(line).ok /\ st.current_main_id # <<>>
        THEN emit(create_task(st.current_main_id, NewLineNumbered(line).variant,
                              Strip(NewLineNumbered(line).text), TRUE))
        ELSE [st EXCEPT !.current_main_id = <<>>]

\* lines 180-191: a line that does not begin 'digits.'
VariantLine(st, line) ==
    LET emit(task) == [st EXCEPT !.tasks = Append(st.tasks, task)]
    IN  IF NewLineLetter(line).ok /\ st.current_main_id # <<>>
        THEN emit(create_task(st.current_main_id, NewLineLetter(line).variant,
                              Strip(NewLineLetter(line).text), TRUE))
        ELSE IF NewLineNumbered(line).ok /\ st.current_main_id # <<>>
        THEN emit(create_task(st.current_main_id, NewLineNumbered(line).variant,
                              Strip(NewLineNumbered(line).text), TRUE))
        ELSE st

\* ScanLine without the test of answers_section: the task grammar is tried
\* on every line that is not the heading
ScanLineIgnoringMode(st, ls, k) ==
    LET line == Normalize(ls[k])
    IN  IF line = ANSWERS_HEADING THEN [st EXCEPT !.answers_section = TRUE]
        ELSE IF ThreeLevel(line) THEN st
        ELSE IF MainMatch(line).ok
             THEN MainLine(st, ls, k, line, MainMatch(line))
             ELSE VariantLine(st, line)

\* ScanLine without the three-level test of line 146
ScanLineNoThreeLevel(st, ls, k) ==
    LET line == Normalize(ls[k])
    IN  IF line = ANSWERS_HEADING THEN [st EXCEPT !.answers_section = TRUE]
        ELSE IF ~st.answers_section
        THEN IF MainMatch(line).ok
             THEN MainLine(st, ls, k, line, MainMatch(line))
             ELSE VariantLine(st, line)
        ELSE [st EXCEPT !.all_answers =
                  Update(st.all_answers, extract_answers_from_line(line))]

\* ScanLine that attaches the answers of a line to the tasks as soon as the
\* line is parsed
ScanLineMergingEarly(st, ls, k) ==
    LET line == Normalize(ls[k])
    IN  IF line = ANSWERS_HEADING THEN [st EXCEPT !.answers_section = TRUE]
        ELSE IF ~st.answers_section
        THEN IF ThreeLevel(line) THEN st
             ELSE IF MainMatch(line).ok
                  THEN MainLine(st, ls, k, line, MainMatch(line))
                  ELSE VariantLine(st, line)
        ELSE [st EXCEPT
                !.all_answers =
                    Update(st.all_answers, extract_answers_from_line(line)),
                !.tasks =
                    [n \in 1..Len(st.tasks) |->
                        IF st.tasks[n].id_tasks_book
                              \in DOMAIN extract_answers_from_line(line)
                        THEN [st.tasks[n] EXCEPT !.answer =
                                 extract_answers_from_line(line)[
                                     st.tasks[n].id_tasks_book]]
                        ELSE st.tasks[n]]]

\* lines 138-194: the body of the loop for line k of ls; st holds tasks,
\* current_main_id (<<>> is None), answers_section and all_answers
ScanLine(st, ls, k) ==
    LET line == Normalize(ls[k])
    IN  IF line = ANSWERS_HEADING THEN [st EXCEPT !.answers_section = TRUE]
        ELSE IF ~st.answers_section
        THEN IF ThreeLevel(line) THEN st
             ELSE IF MainMatch(line).ok
                  THEN MainLine(st, ls, k, line, MainMatch(line))
                  ELSE VariantLine(st, line)
        ELSE [st EXCEPT !.all_answers =
                  Update(st.all_answers, extract_answers_from_line(line))]

\* a merge that appends the mapping's answer to the answer the task has
MergeAppendingAnswers(ts, answers) ==
    [k \in 1..Len(ts) |->
        IF ts[k].id_tasks_book \in DOMAIN answers
        THEN [ts[k] EXCEPT !.answer = @ \o answers[ts[k].id_tasks_book]]
        ELSE ts[k]]

\* lines 196-199: every task whose id is a key takes the mapping's answer
MergeAnswersInto(ts, answers) ==
    [k \in 1..Len(ts) |->
        IF ts[k].id_tasks_book \in DOMAIN answers
        THEN [ts[k] EXCEPT !.answer = answers[ts[k].id_tasks_book]]
        ELSE ts[k]]

\* the locals with answers_section initially set
TaskStartInAnswers ==
    [tasks |-> <<>>, current_main_id |-> <<>>, answers_section |-> TRUE,
     all_answers |-> EmptyMap]

\* lines 133-136: the pass's locals before the loop
TaskStart ==
    [tasks |-> <<>>, current_main_id |-> <<>>, answers_section |-> FALSE,
     all_answers |-> EmptyMap]

\* lines 138-194 run over lines k.. of ls from st
RECURSIVE ScanFrom(_, _, _)
ScanFrom(st, ls, k) ==
    IF k > Len(ls) THEN st ELSE ScanFrom(ScanLine(st, ls, k), ls, k + 1)

\* extract_tasks_from_docx, lines 129-201, run alone on the paragraphs
extract_tasks_from_docx(paras) ==
    LET st == ScanFrom(TaskStart, NonEmptyLines(paras), 1)
    IN  MergeAnswersInto(st.tasks, st.all_answers)

(***************************************************************************)
(* The outline pass (extract_toc, lines 20-81).  The text of a paragraph   *)
(* is the stripped concatenation of its text nodes; it holds no newline.   *)
(***************************************************************************)
\* line 40: 'Oglavlenie', the heading that opens the outline
TOC_HEADING ==
    <<"RU:O", "ru:g", "ru:l", "ru:a", "ru:v", "ru:l", "ru:e", "ru:n", "ru:i",
      "ru:e">>

\* [\.\s\t] of lines 44 and 46
Separators == {"."} \cup Spaces

\* u matches \d+(\.\d+)* as a whole
IsSectionNumber(u) ==
    /\ u # <<>>
    /\ \A p \in 1..Len(u) : u[p] \in Digits \cup {"."}
    /\ IsDigit(u[1]) /\ IsDigit(u[Len(u)])
    /\ \A p \in 1..(Len(u) - 1) : ~(u[p] = "." /\ u[p + 1] = ".")

\* the ends e at which ^\d+(\.\d+)* can stop in t; the pattern is greedy
\* and tries them from the largest down
NumberEnds(t) == {e \in 1..Len(t) : IsSectionNumber(SubSeq(t, 1, e))}

\* lines 44 and 75: re.match(r'^\d+(\.\d+)*[\.\s\t]+', text)
NumericPrefix(t) == \E e \in NumberEnds(t) : AtIn(t, e + 1, Separators)

\* rest matches (?:\s+\d+)?$ : nothing, or whitespace and a number
PageTail(rest) ==
    LET sp == SpaceRun(rest, 1)
        d == DigitRun(rest, sp + 1)
    IN  rest = <<>> \/ (sp >= 1 /\ d >= 1 /\ sp + d = Len(rest))

\* lines 45-47: re.match(r'^(\d+(?:\.\d+)*)[\.\s\t]+(.+?)(?:\s+\d+)?$', text).
\* The number is the longest that leaves a separator and a character for
\* the name; the separators take all they can but that character; the name
\* is lazy and stops at the first place where only a page number is left.
SectionMatch(t) ==
    LET fits(e) == AtIn(t, e + 1, Separators) /\ e + 1 < Len(t)
        e == CHOOSE x \in NumberEnds(t) :
                 fits(x) /\ \A y \in NumberEnds(t) : fits(y) => y <= x
        n == e + 1 + Min(Run(t, e + 1, Separators), Len(t) - e - 1)
        k == CHOOSE x \in 1..(Len(t) - n + 1) :
                 /\ PageTail(From(t, n + x))
                 /\ \A y \in 1..(x - 1) : ~PageTail(From(t, n + y))
    IN  IF \E x \in NumberEnds(t) : fits(x)
        THEN [ok |-> TRUE, section_num |-> SubSeq(t, 1, e),
              section_name |-> Strip(SubSeq(t, n, n + k - 1))]
        ELSE NoMatch

\* the parent taken to be the node recorded last
ParentIsPreviousNode(nodes, section_num) ==
    IF LastDot(section_num) = 0 \/ nodes = <<>> THEN 0
    ELSE nodes[Len(nodes)].id

\* lines 51-63: the id of the first node whose number is section_num
\* without its last segment; 0 without a dot or without such a node
Parent(nodes, section_num) ==
    LET key == SubSeq(section_num, 1, LastDot(section_num) - 1)
        found == {k \in 1..Len(nodes) : nodes[k].temp = key}
    IN  IF LastDot(section_num) = 0 \/ found = {} THEN 0
        ELSE nodes[CHOOSE k \in found : \A m \in found : k <= m].id

\* lines 29-30: the pass's locals before the loop
TocStart == [toc |-> <<>>, inside_toc |-> FALSE, current_id |-> 1, stop |-> FALSE]

\* TocParagraph without the break of lines 75-76: a line that does not
\* match is passed over
TocParagraphNoBreak(st, para) ==
    LET text == Strip(para)
        m == SectionMatch(text)
    IN  IF Contains(text, TOC_HEADING) THEN [st EXCEPT !.inside_toc = TRUE]
        ELSE IF st.inside_toc /\ NumericPrefix(text) /\ m.ok
        THEN [st EXCEPT
                !.toc = Append(st.toc,
                           [id |-> st.current_id,
                            name |-> m.section_name,
                            parent |-> Parent(st.toc, m.section_num),
                            temp |-> m.section_num]),
                !.current_id = st.current_id + 1]
        ELSE st

\* lines 33-76: the body of the loop for one paragraph; stop is the break
TocParagraph(st, para) ==
    LET text == Strip(para)
        m == SectionMatch(text)
    IN  IF Contains(text, TOC_HEADING) THEN [st EXCEPT !.inside_toc = TRUE]
        ELSE IF st.inside_toc /\ NumericPrefix(text)
        THEN IF m.ok
             THEN [st EXCEPT
                     !.toc = Append(st.toc,
                                [id |-> st.current_id,
                                 name |-> m.section_name,
                                 parent |-> Parent(st.toc, m.section_num),
                                 temp |-> m.section_num]),
                     !.current_id = st.current_id + 1]
             ELSE st
        ELSE IF st.inside_toc THEN [st EXCEPT !.stop = TRUE]
        ELSE st

\* lines 78-81: item.pop('temp') for every node
DropTemp(nodes) ==
    [k \in 1..Len(nodes) |->
        [id |-> nodes[k].id, name |-> nodes[k].name, parent |-> nodes[k].parent]]

\* lines 32-76 run over paragraphs k.. from st
RECURSIVE TocFrom(_, _, _)
TocFrom(st, paras, k) ==
    IF k > Len(paras) \/ st.stop THEN st
    ELSE TocFrom(TocParagraph(st, paras[k]), paras, k + 1)

\* extract_toc, lines 20-81, run alone on the paragraphs
extract_toc(paras) == DropTemp(TocFrom(TocStart, paras, 1).toc)

(***************************************************************************)
(* The inputs: a document is a sequence of paragraph texts.                *)
(***************************************************************************)
\* the largest number of paragraphs of a bounded input
MaxLines == 3

\* the answers heading with a tab and a space between its first two words
LineAnswersHeading ==
    <<"RU:O", "ru:t", "ru:v", "ru:e", "ru:t", "ru:y", "\t", " ", "ru:i",
      " ", "ru:s", "ru:o", "ru:v", "ru:e", "ru:t", "ru:y">>

\* '1. x': a main task with prose
LineMain ==
    <<"1", ".", " ", "x">>

\* '1.': a main task number alone
LineBareMain ==
    <<"1", ".">>

\* '1.a) x' with the Cyrillic a: a main number and a letter variant
LineInlineLetter ==
    <<"1", ".", "ru:a", ")", " ", "x">>

\* '1.1. y': the three-level dotted shape
LineThreeLevel ==
    <<"1", ".", "1", ".", " ", "y">>

\* 'a) x' with the Cyrillic a: a letter variant on its own line
LineLetter ==
    <<"ru:a", ")", " ", "x">>

\* '2) y': a numbered variant on its own line
LineNumbered ==
    <<"2", ")", " ", "y">>

\* 'x y': free prose
LineProse ==
    <<"x", " ", "y">>

\* '1. a) y. 2. z' with the Cyrillic a: two answers packed into one line
LinePacked ==
    <<"1", ".", " ", "ru:a", ")", " ", "y", ".", " ", "2", ".", " ", "z">>

\* '2. z 7': a second main task, or an outline entry with a page number
LineSecond ==
    <<"2", ".", " ", "z", " ", "7">>

\* the paragraphs the bounded inputs are built from
LinePool ==
    {LineAnswersHeading, TOC_HEADING, LineMain, LineBareMain, LineInlineLetter,
     LineThreeLevel, LineLetter, LineNumbered, LineProse, LinePacked,
     LineSecond, <<>>}

\* the end-to-end scenario with the Latin letters a and b
EndToEndLatin ==
    <<
      <<"1", ".", " ", "S", "o", "l", "v", "e", " ", "t", "h", "e", " ",
        "e", "q", "u", "a", "t", "i", "o", "n">>,
      <<"a", ")", " ", "x", "+", "1", "=", "0">>,
      <<"b", ")", " ", "x", "-", "1", "=", "0">>,
      <<"RU:O", "ru:t", "ru:v", "ru:e", "ru:t", "ru:y", " ", "ru:i", " ",
        "ru:s", "ru:o", "ru:v", "ru:e", "ru:t", "ru:y">>,
      <<"1", ".", " ", "a", ")", " ", "-", "1", " ", "b", ")", " ", "1">>
    >>

\* the end-to-end scenario with the Cyrillic letters a and b
EndToEndCyrillic ==
    <<
      <<"1", ".", " ", "S", "o", "l", "v", "e", " ", "t", "h", "e", " ",
        "e", "q", "u", "a", "t", "i", "o", "n">>,
      <<"ru:a", ")", " ", "x", "+", "1", "=", "0">>,
      <<"ru:b", ")", " ", "x", "-", "1", "=", "0">>,
      <<"RU:O", "ru:t", "ru:v", "ru:e", "ru:t", "ru:y", " ", "ru:i", " ",
        "ru:s", "ru:o", "ru:v", "ru:e", "ru:t", "ru:y">>,
      <<"1", ".", " ", "ru:a", ")", " ", "-", "1", " ", "ru:b", ")", " ",
        "1">>
    >>

\* the outline scenario: the heading, then four entries
OutlineExample ==
    <<
      <<"RU:O", "ru:g", "ru:l", "ru:a", "ru:v", "ru:l", "ru:e", "ru:n",
        "ru:i", "ru:e">>,
      <<"1", ".", " ", "I", "n", "t", "r", "o">>,
      <<"1", ".", "1", ".", " ", "B", "a", "s", "i", "c", "s">>,
      <<"1", ".", "2", ".", " ", "A", "d", "v", "a", "n", "c", "e", "d">>,
      <<"2", ".", " ", "N", "e", "x", "t">>
    >>

\* the sequences over S of length at most n
RECURSIVE SeqsUpTo(_, _)
SeqsUpTo(S, n) ==
    IF n = 0 THEN {<<>>}
    ELSE LET shorter == SeqsUpTo(S, n - 1)
         IN  shorter \cup {Append(q, x) : q \in shorter, x \in S}

\* the documents of at most MaxLines paragraphs from the pool, and the three
\* scenarios
PoolInputs ==
    SeqsUpTo(LinePool, MaxLines)
        \cup {EndToEndLatin, EndToEndCyrillic, OutlineExample}

\* the largest length of a short line
MaxLineLen == 4

\* the characters short lines are made of
Alphabet == {"1", ".", ")", " ", "ru:a", "x"}

\* every non-empty text of at most MaxLineLen characters that begins and
\* ends with no whitespace
ShortLines ==
    {s \in SeqsUpTo(Alphabet, MaxLineLen) : s # <<>> /\ Strip(s) = s}

\* every short line in three places: after a main task and before a
\* three-level line, first in the document, and in the answers section
ShortLineInputs ==
    {<<LineMain, s, LineThreeLevel>> : s \in ShortLines}
        \cup {<<s, LineLetter>> : s \in ShortLines}
        \cup {<<LineAnswersHeading, s>> : s \in ShortLines}

\* '1. y. 1. z': the answer of task 1 given twice in one line
LineDup ==
    <<"1", ".", " ", "y", ".", " ", "1", ".", " ", "z">>

\* '1. 2) y a) x' with the Cyrillic a: a numbered and a letter marker in one
\* answer
LineMixed ==
    <<"1", ".", " ", "2", ")", " ", "y", " ", "ru:a", ")", " ", "x">>

\* documents with an answers section: an answer given twice in one line, an
\* answer given in two lines, and an answer with markers of both kinds
AnswerScenarios ==
    {<<LineMain, LineAnswersHeading, LineDup>>,
     <<LineInlineLetter, LineAnswersHeading, LineInlineLetter, LinePacked>>,
     <<LineMain, LineNumbered, LineAnswersHeading, LineMixed>>}

\* the documents the model is run on
Inputs == PoolInputs \cup ShortLineInputs \cup AnswerScenarios

(***************************************************************************)
(* The program state.                                                      *)
(***************************************************************************)
VARIABLES
    paragraphs,        \* the paragraphs of the document at the path
    pc,                \* main: "validate", "extract", "print", "except", "done"
    exc,               \* the exception in flight, "none" when there is none
    raised_in,         \* history: the step that raised, "none" when none did
    printed,           \* what main printed: "none", "summary", "error", "unexpected"
    save_called,       \* save_tasks has been called
    sink,              \* the sheets written to the workbook, in order
    tpc,               \* extract_tasks_from_docx: "idle", "scan", "done"
    lines,             \* its lines (line 132)
    i,                 \* the index of the line its loop is at, from 1
    tasks,             \* its tasks
    current_main_id,   \* its current_main_id, <<>> for None
    answers_section,   \* its answers_section
    all_answers,       \* its all_answers
    opc,               \* extract_toc: "idle", "scan", "done"
    j,                 \* the index of the paragraph its loop is at, from 1
    toc,               \* its toc
    inside_toc,        \* its inside_toc
    current_id,        \* its current_id
    toc_stop           \* its loop has hit the break of line 76

vars ==
    <<paragraphs, pc, exc, raised_in, printed, save_called, sink, tpc, lines,
      i, tasks, current_main_id, answers_section, all_answers, opc, j, toc,
      inside_toc, current_id, toc_stop>>

mainVars == <<pc, exc, raised_in, printed, save_called, sink>>

taskVars == <<tpc, lines, i, tasks, current_main_id, answers_section, all_answers>>

tocVars == <<opc, j, toc, inside_toc, current_id, toc_stop>>

\* the locals of the task pass as the record ScanLine works on
TaskState ==
    [tasks |-> tasks, current_main_id |-> current_main_id,
     answers_section |-> answers_section, all_answers |-> all_answers]

\* the locals of the outline pass as the record TocParagraph works on
TocState ==
    [toc |-> toc, inside_toc |-> inside_toc, current_id |-> current_id,
     stop |-> toc_stop]

\* the state before main runs on a document of docs
InitOn(docs) ==
    /\ paragraphs \in docs
    /\ pc = "validate" /\ exc = "none" /\ raised_in = "none"
    /\ printed = "none" /\ save_called = FALSE /\ sink = <<>>
    /\ tpc = "idle" /\ lines = <<>> /\ i = 1
    /\ tasks = TaskStart.tasks
    /\ current_main_id = TaskStart.current_main_id
    /\ answers_section = TaskStart.answers_section
    /\ all_answers = TaskStart.all_answers
    /\ opc = "idle" /\ j = 1
    /\ toc = TocStart.toc /\ inside_toc = TocStart.inside_toc
    /\ current_id = TocStart.current_id /\ toc_stop = TocStart.stop

Init == InitOn(Inputs)

(***************************************************************************)
(* main, lines 244-268.                                                    *)
(***************************************************************************)
\* raise e from step
Raise(e, step) ==
    /\ exc' = e /\ raised_in' = step /\ pc' = "except"
    /\ UNCHANGED <<printed, save_called, sink>>

\* lines 247-248: the path does not exist
NotFound ==
    /\ pc = "validate"
    /\ Raise("FileNotFoundError", "exists")
    /\ UNCHANGED <<paragraphs, taskVars, tocVars>>

\* lines 250-251: the suffix is not .docx
WrongSuffix ==
    /\ pc = "validate"
    /\ Raise("ValueError", "suffix")
    /\ UNCHANGED <<paragraphs, taskVars, tocVars>>

\* lines 247-251: both checks pass
Validated ==
    /\ pc = "validate"
    /\ pc' = "extract"
    /\ UNCHANGED <<paragraphs, exc, raised_in, printed, save_called, sink,
                   taskVars, tocVars>>

\* lines 131-136: Document(file_path) opens and the lines are read
OpenDocument ==
    /\ pc = "extract" /\ tpc = "idle"
    /\ tpc' = "scan"
    /\ lines' = NonEmptyLines(paragraphs)
    /\ UNCHANGED <<paragraphs, mainVars, i, tasks, current_main_id,
                   answers_section, all_answers, tocVars>>

\* line 131: Document(file_path) raises on a file that is no Word document
OpenDocumentFails ==
    /\ pc = "extract" /\ tpc = "idle"
    /\ Raise("Exception", "tasks")
    /\ UNCHANGED <<paragraphs, taskVars, tocVars>>

\* lines 138-194: one iteration of the loop of extract_tasks_from_docx
TaskLine ==
    /\ pc = "extract" /\ tpc = "scan" /\ i <= Len(lines)
    /\ LET st == ScanLine(TaskState, lines, i)
       IN  /\ tasks' = st.tasks
           /\ current_main_id' = st.current_main_id
           /\ answers_section' = st.answers_section
           /\ all_answers' = st.all_answers
    /\ i' = i + 1
    /\ UNCHANGED <<paragraphs, mainVars, tpc, lines, tocVars>>

\* lines 196-201: the merge and the return
MergeAnswers ==
    /\ pc = "extract" /\ tpc = "scan" /\ i > Len(lines)
    /\ tasks' = MergeAnswersInto(tasks, all_answers)
    /\ tpc' = "done"
    /\ UNCHANGED <<paragraphs, mainVars, lines, i, current_main_id,
                   answers_section, all_answers, tocVars>>

\* lines 22-30: the archive opens and document.xml parses
StartToc ==
    /\ opc = "idle"
    /\ opc' = "scan"
    /\ UNCHANGED <<paragraphs, mainVars, taskVars, j, toc, inside_toc,
                   current_id, toc_stop>>

\* line 254: main calls extract_toc once extract_tasks_from_docx has returned
TocOpen == pc = "extract" /\ tpc = "done" /\ StartToc

\* lines 23-26: the archive or its document.xml cannot be read
TocOpenFails ==
    /\ pc = "extract" /\ tpc = "done" /\ opc = "idle"
    /\ Raise("Exception", "toc")
    /\ UNCHANGED <<paragraphs, taskVars, tocVars>>

\* the loop of extract_toc run on the index of the task pass's loop
TocLineSharedIndex ==
    /\ pc = "extract" /\ opc = "scan" /\ i <= Len(paragraphs) /\ ~toc_stop
    /\ LET st == TocParagraph(TocState, paragraphs[i])
       IN  /\ toc' = st.toc
           /\ inside_toc' = st.inside_toc
           /\ current_id' = st.current_id
           /\ toc_stop' = st.stop
    /\ i' = i + 1
    /\ UNCHANGED <<paragraphs, mainVars, tpc, lines, tasks, current_main_id,
                   answers_section, all_answers, opc, j>>

\* lines 32-76: one iteration of the loop of extract_toc
TocLine ==
    /\ pc = "extract" /\ opc = "scan" /\ j <= Len(paragraphs) /\ ~toc_stop
    /\ LET st == TocParagraph(TocState, paragraphs[j])
       IN  /\ toc' = st.toc
           /\ inside_toc' = st.inside_toc
           /\ current_id' = st.current_id
           /\ toc_stop' = st.stop
    /\ j' = j + 1
    /\ UNCHANGED <<paragraphs, mainVars, taskVars, opc>>

\* lines 78-81: the loop has ended; temp is dropped and toc returned
TocFinish ==
    /\ pc = "extract" /\ opc = "scan" /\ (j > Len(paragraphs) \/ toc_stop)
    /\ toc' = DropTemp(toc)
    /\ opc' = "done"
    /\ UNCHANGED <<paragraphs, mainVars, taskVars, j, inside_toc, current_id,
                   toc_stop>>

\* lines 214-221: the columns of the tasks sheet
TaskColumns ==
    <<"id_tasks_book", "task", "answer", "classes", "topic_id", "level">>

\* create_author_table, lines 204-207
create_author_table ==
    [sheet |-> "author",
     columns |-> <<"name", "author", "description", "topic_id", "classes">>,
     rows |-> <<>>]

\* lines 228-229: a frame made from no records has no columns
TocSheet(nodes) ==
    [sheet |-> "table_of_contents",
     columns |-> IF nodes = <<>> THEN <<>> ELSE <<"id", "name", "parent">>,
     rows |-> nodes]

\* save_tasks called as soon as the tasks are there, before extract_toc
SaveTasksBeforeToc ==
    /\ pc = "extract" /\ tpc = "done" /\ tasks # <<>>
    /\ save_called' = TRUE
    /\ sink' = <<[sheet |-> "tasks", columns |-> TaskColumns, rows |-> tasks],
                 create_author_table, TocSheet(toc)>>
    /\ pc' = "print"
    /\ UNCHANGED <<paragraphs, exc, raised_in, printed, taskVars, tocVars>>

\* line 256 and save_tasks, lines 210-229, with at least one task
SaveTasks ==
    /\ pc = "extract" /\ tpc = "done" /\ opc = "done" /\ tasks # <<>>
    /\ save_called' = TRUE
    /\ sink' = <<[sheet |-> "tasks", columns |-> TaskColumns, rows |-> tasks],
                 create_author_table, TocSheet(toc)>>
    /\ pc' = "print"
    /\ UNCHANGED <<paragraphs, exc, raised_in, printed, taskVars, tocVars>>

\* line 256 and save_tasks, lines 213-222, with no task: the frame has no
\* columns and selecting the six columns raises KeyError
SaveTasksFails ==
    /\ pc = "extract" /\ tpc = "done" /\ opc = "done" /\ tasks = <<>>
    /\ save_called' = TRUE
    /\ exc' = "Exception" /\ raised_in' = "save" /\ pc' = "except"
    /\ UNCHANGED <<paragraphs, printed, sink, taskVars, tocVars>>

\* lines 258-263
PrintSummary ==
    /\ pc = "print"
    /\ printed' = "summary"
    /\ pc' = "done"
    /\ UNCHANGED <<paragraphs, exc, raised_in, save_called, sink, taskVars,
                   tocVars>>

\* lines 265-266: except (FileNotFoundError, ValueError)
HandleKnown ==
    /\ pc = "except" /\ exc \in {"FileNotFoundError", "ValueError"}
    /\ printed' = "error"
    /\ exc' = "none"
    /\ pc' = "done"
    /\ UNCHANGED <<paragraphs, raised_in, save_called, sink, taskVars, tocVars>>

\* lines 267-268: except Exception
HandleUnexpected ==
    /\ pc = "except" /\ exc = "Exception"
    /\ printed' = "unexpected"
    /\ exc' = "none"
    /\ pc' = "done"
    /\ UNCHANGED <<paragraphs, raised_in, save_called, sink, taskVars, tocVars>>

\* main as written: the task pass, then the outline pass, then the save
Next ==
    \/ NotFound
    \/ WrongSuffix
    \/ Validated
    \/ OpenDocument
    \/ OpenDocumentFails
    \/ TaskLine
    \/ MergeAnswers
    \/ TocOpen
    \/ TocOpenFails
    \/ TocLine
    \/ TocFinish
    \/ SaveTasks
    \/ SaveTasksFails
    \/ PrintSummary
    \/ HandleKnown
    \/ HandleUnexpected

Spec == Init /\ [][Next]_vars

(***************************************************************************)
(* The two passes run concurrently: the outline pass may start before the  *)
(* task pass has returned, and their iterations interleave.                *)
(***************************************************************************)
\* extract_toc is started without waiting for extract_tasks_from_docx
TocOpenPar == pc = "extract" /\ StartToc

NextPar ==
    \/ Validated
    \/ OpenDocument
    \/ TaskLine
    \/ MergeAnswers
    \/ TocOpenPar
    \/ TocLine
    \/ TocFinish
    \/ SaveTasks
    \/ SaveTasksFails
    \/ PrintSummary
    \/ HandleUnexpected

\* the paragraphs the documents of the concurrent run are built from
ParPool ==
    {LineAnswersHeading, TOC_HEADING, LineMain, LineThreeLevel, LineLetter,
     LinePacked, LineSecond, LineProse}

\* the documents of the concurrent run
ParInputs ==
    SeqsUpTo(ParPool, MaxLines)
        \cup {EndToEndLatin, EndToEndCyrillic, OutlineExample}

InitPar == InitOn(ParInputs)

SpecPar == InitPar /\ [][NextPar]_vars

(***************************************************************************)
(* The merge of lines 196-199 on its own: any task list, any mapping,      *)
(* applied once and then again.                                            *)
(***************************************************************************)
\* the largest number of tasks of a merged list
MaxMergeTasks == 2

\* the identifiers of the merged tasks and the keys of the mappings
MergeIds == {<<"1">>, <<"1", ".", "ru:a">>, <<"2">>}

\* the tasks of the merged lists, with and without an answer already
MergeTasks ==
    {[create_task(<<"1">>, v, <<"x">>, v # <<>>) EXCEPT !.answer = a] :
        v \in {<<>>, <<"ru:a">>}, a \in {NO_ANSWER, <<"y">>}}

\* the mappings: every set of keys, every choice of answers
MergeMaps ==
    UNION {[K -> {<<"y">>, <<"z">>}] : K \in SUBSET MergeIds}

InitMerge ==
    /\ paragraphs = <<>>
    /\ pc = "extract" /\ exc = "none" /\ raised_in = "none"
    /\ printed = "none" /\ save_called = FALSE /\ sink = <<>>
    /\ tpc = "scan" /\ lines = <<>> /\ i = 1
    /\ tasks \in SeqsUpTo(MergeTasks, MaxMergeTasks)
    /\ current_main_id = <<>>
    /\ answers_section = TRUE
    /\ all_answers \in MergeMaps
    /\ opc = "idle" /\ j = 1
    /\ toc = TocStart.toc /\ inside_toc = TocStart.inside_toc
    /\ current_id = TocStart.current_id /\ toc_stop = TocStart.stop

\* lines 196-199 run a second time with the same mapping
MergeAgain ==
    /\ pc = "extract" /\ tpc = "done"
    /\ tasks' = MergeAnswersInto(tasks, all_answers)
    /\ UNCHANGED <<paragraphs, mainVars, tpc, lines, i, current_main_id,
                   answers_section, all_answers, tocVars>>

NextMerge ==
    \/ MergeAnswers
    \/ MergeAgain

SpecMerge == InitMerge /\ [][NextMerge]_vars

(***************************************************************************)
(* Properties.                                                             *)
(***************************************************************************)
\* the step is one iteration of the loop of the task pass, on lines[i]
ScansLine == tpc = "scan" /\ i <= Len(lines) /\ i' = i + 1

\* the identifier and the text of every task, in order
IdsAndTexts(ts) == [k \in 1..Len(ts) |-> <<ts[k].id_tasks_book, ts[k].task>>]

\* ts2 is ts1 with exactly one record more, at the end
OneMore(ts1, ts2) == Len(ts2) = Len(ts1) + 1 /\ SubSeq(ts2, 1, Len(ts1)) = ts1

\* a line equal to the answers heading after normalization has been processed
SentinelSeen ==
    tpc # "idle" /\ \E k \in 1..Len(lines) : k < i /\ Normalize(lines[k]) = ANSWERS_HEADING

\* s has the form 'N. prose': digits, a dot, whitespace, text
NumberDotProse(s) ==
    \E a \in 1..Len(s) :
        /\ \A p \in 1..a : IsDigit(s[p])
        /\ At(s, a + 1, ".")
        /\ AtIn(s, a + 2, Spaces)
        /\ Strip(From(s, a + 2)) # <<>>

\* the N of a line of the form 'N. prose'
NumberOf(s) == SubSeq(s, 1, CHOOSE a \in 1..Len(s) : At(s, a + 1, ".") /\ \A p \in 1..a : IsDigit(s[p]))

\* the prose of a line of the form 'N. prose'
ProseOf(s) == Strip(From(s, Len(NumberOf(s)) + 2))

\* the line after lines[i] has the deeper form 'N.M.' for the N of lines[i]
DeeperFollows ==
    /\ i + 1 <= Len(lines)
    /\ \E b \in 1..Len(lines[i + 1]) :
          LET n == NumberOf(Normalize(lines[i]))
              t == lines[i + 1]
          IN  /\ StartsWith(t, n \o <<".">>)
              /\ \A p \in (Len(n) + 2)..(Len(n) + 1 + b) : AtIn(t, p, Digits)
              /\ At(t, Len(n) + b + 2, ".")

\* s begins 'digits.digits.'
DottedShape(s) ==
    \E a, b \in 1..Len(s) :
        /\ \A p \in 1..a : AtIn(s, p, Digits)
        /\ At(s, a + 1, ".")
        /\ \A p \in (a + 2)..(a + b + 1) : AtIn(s, p, Digits)
        /\ At(s, a + b + 2, ".")

\* t begins with a variant marker and text after it: a Cyrillic letter of
\* either case or digits, then ')', then at least one more character
MarkerAndText(t) ==
    \/ AtIn(t, 1, CyrLetters) /\ At(t, 2, ")") /\ Len(t) >= 3
    \/ \E d \in 1..Len(t) :
          (\A p \in 1..d : IsDigit(t[p])) /\ At(t, d + 1, ")") /\ Len(t) >= d + 2

\* C1: once a line equal to the answers heading (after normalization) has
\* been processed, the pass is and stays in answers mode, and no step adds,
\* removes or rewrites a task's identifier or text, whatever the later lines.
C1_AnswersModeIsFinal ==
    /\ [](SentinelSeen => answers_section)
    /\ [][SentinelSeen =>
            (answers_section' /\ IdsAndTexts(tasks') = IdsAndTexts(tasks))]_vars

\* C1 witness: a task was emitted, then the heading was processed, then a
\* line that matches the main-task or the sub-variant grammar
C1_Witness ==
    /\ tpc = "scan" /\ answers_section
    /\ tasks # <<>> /\ current_main_id # <<>>
    /\ \E k, m \in 1..Len(lines) :
          /\ k < m /\ m < i
          /\ Normalize(lines[k]) = ANSWERS_HEADING
          /\ lines[m] \in {LineMain, LineLetter}

\* C2 as stated: every line 'N. prose' processed in task mode and not
\* followed by a line 'N.M.' adds exactly one record, with id N and text
\* equal to the prose, not nested.
C2_Original ==
    [][(ScansLine /\ ~answers_section /\ NumberDotProse(Normalize(lines[i]))
          /\ ~DeeperFollows)
        => /\ OneMore(tasks, tasks')
           /\ tasks'[Len(tasks')].id_tasks_book = NumberOf(Normalize(lines[i]))
           /\ tasks'[Len(tasks')].task = ProseOf(Normalize(lines[i]))]_vars

\* C2 amended: the same, for the lines 'N. prose' whose prose does not begin
\* with a variant marker (a Cyrillic letter or digits, then ')') followed by
\* text; the prose is that of the whitespace-normalized line.
C2_MainRecord ==
    [][(ScansLine /\ ~answers_section /\ NumberDotProse(Normalize(lines[i]))
          /\ ~DeeperFollows
          /\ ~MarkerAndText(ProseOf(Normalize(lines[i]))))
        => /\ OneMore(tasks, tasks')
           /\ tasks'[Len(tasks')].id_tasks_book = NumberOf(Normalize(lines[i]))
           /\ tasks'[Len(tasks')].task = ProseOf(Normalize(lines[i]))
           /\ tasks'[Len(tasks')].answer = NO_ANSWER]_vars

\* C2 witness: '2. z 7' has just been processed in task mode after another
\* task, and its record is the last one
C2_Witness ==
    /\ tpc = "scan" /\ ~answers_section /\ i > 2
    /\ lines[i - 1] = LineSecond
    /\ Len(tasks) >= 2
    /\ tasks[Len(tasks)].id_tasks_book = <<"2">>
    /\ tasks[Len(tasks)].task = <<"z", " ", "7">>

\* s has the shape 'N.letter) text': digits, a dot, a Cyrillic letter, ')',
\* text
NumberLetterText(s) ==
    \E a \in 1..Len(s) :
        /\ \A p \in 1..a : IsDigit(s[p])
        /\ At(s, a + 1, ".")
        /\ AtIn(s, a + 2, CyrLetters)
        /\ At(s, a + 3, ")")
        /\ Strip(From(s, a + 4)) # <<>>

\* C3 as stated: every line 'N.letter) text' processed in task mode adds
\* exactly one record, with id 'N.letter' and the tab-prefixed text,
\* whatever line follows.
C3_InlineLetterRecord ==
    [][(ScansLine /\ ~answers_section /\ NumberLetterText(Normalize(lines[i])))
        => LET s == Normalize(lines[i])
               n == NumberOf(s)
           IN  /\ OneMore(tasks, tasks')
               /\ tasks'[Len(tasks')].id_tasks_book
                     = n \o <<".", s[Len(n) + 2]>>
               /\ tasks'[Len(tasks')].task
                     = <<"\t">> \o Strip(From(s, Len(n) + 4))]_vars

\* C4: a line that begins 'digits.digits.' and is processed outside the
\* answers section changes neither the tasks nor any other local of the
\* pass, whatever its content and its neighbours.
C4_ThreeLevelSkipped ==
    [][(ScansLine /\ ~answers_section /\ DottedShape(lines[i]))
        => UNCHANGED <<tasks, current_main_id, answers_section, all_answers>>]_vars

\* C4 witness: a 'digits.digits.' line has just been processed in task mode,
\* after a task was emitted and with a line still to come
C4_Witness ==
    /\ tpc = "scan" /\ ~answers_section /\ i > 2 /\ i <= Len(lines)
    /\ DottedShape(lines[i - 1])
    /\ tasks # <<>>

\* 'Solve the equation', the prose of the first line of the scenarios
SolveTheEquation == From(EndToEndLatin[1], 4)

\* C5 as stated: on the scenario written with the Latin letters a and b the
\* pass returns the records '1' (text 'Solve the equation'), '1.a' (answer
\* '-1') and '1.b' (answer '1'), in this order.
C5_Original ==
    (paragraphs = EndToEndLatin /\ tpc = "done")
    => /\ Len(tasks) = 3
       /\ tasks[1].id_tasks_book = <<"1">>
       /\ tasks[1].task = SolveTheEquation
       /\ tasks[2].id_tasks_book = <<"1", ".", "a">>
       /\ tasks[2].answer = <<"-", "1">>
       /\ tasks[3].id_tasks_book = <<"1", ".", "b">>
       /\ tasks[3].answer = <<"1">>

\* C5 amended: on the scenario written with the Cyrillic letters the pass
\* returns the three records; written with the Latin letters it returns
\* the record '1' alone, with the whole answer line's remainder as answer.
C5_EndToEnd ==
    /\ (paragraphs = EndToEndCyrillic /\ tpc = "done")
       => /\ Len(tasks) = 3
          /\ tasks[1].id_tasks_book = <<"1">>
          /\ tasks[1].task = SolveTheEquation
          /\ tasks[2].id_tasks_book = <<"1", ".", "ru:a">>
          /\ tasks[2].answer = <<"-", "1">>
          /\ tasks[3].id_tasks_book = <<"1", ".", "ru:b">>
          /\ tasks[3].answer = <<"1">>
    /\ (paragraphs = EndToEndLatin /\ tpc = "done")
       => /\ Len(tasks) = 1
          /\ tasks[1].id_tasks_book = <<"1">>
          /\ tasks[1].task = SolveTheEquation
          /\ tasks[1].answer = From(EndToEndLatin[5], 4)

\* C5 witness: the pass has returned on the Cyrillic scenario
C5_Witness ==
    paragraphs = EndToEndCyrillic /\ tpc = "done" /\ Len(tasks) = 3

\* num without its last dot-segment
WithoutLastSegment(num) == SubSeq(num, 1, LastDot(num) - 1)

\* the nodes the outline scenario must yield
OutlineExpected ==
    <<[id |-> 1, name |-> <<"I", "n", "t", "r", "o">>, parent |-> 0],
      [id |-> 2, name |-> <<"B", "a", "s", "i", "c", "s">>, parent |-> 1],
      [id |-> 3, name |-> <<"A", "d", "v", "a", "n", "c", "e", "d">>, parent |-> 1],
      [id |-> 4, name |-> <<"N", "e", "x", "t">>, parent |-> 0]>>

\* C6: the k-th node has id k; its parent is 0 when its number has no dot
\* or no earlier node carries the number without its last segment, else the
\* id of an earlier node that carries it; a parent is 0 or an earlier id;
\* the outline scenario yields Intro/0, Basics/1, Advanced/1, Next/0.
C6_OutlineParents ==
    /\ \A k \in 1..Len(toc) : toc[k].id = k /\ toc[k].parent < k
    /\ opc = "scan" =>
          \A k \in 1..Len(toc) :
              LET earlier == {m \in 1..(k - 1) :
                                 toc[m].temp = WithoutLastSegment(toc[k].temp)}
              IN  IF "." \notin {toc[k].temp[p] : p \in 1..Len(toc[k].temp)}
                     \/ earlier = {}
                  THEN toc[k].parent = 0
                  ELSE toc[k].parent \in earlier
    /\ (paragraphs = OutlineExample /\ opc = "done") => toc = OutlineExpected

\* C6 witness: the outline pass has returned the four nodes of the scenario
C6_Witness ==
    paragraphs = OutlineExample /\ opc = "done" /\ Len(toc) = 4

\* C7: once the merge has run, running it again with the same mapping
\* leaves every task as it is.
C7_MergeIdempotent ==
    tpc = "done" => MergeAnswersInto(tasks, all_answers) = tasks

\* C7 witness: the merge has run on a list in which it replaced one task's
\* answer and left another task alone
C7_Witness ==
    /\ tpc = "done"
    /\ \E k, m \in 1..Len(tasks) :
          /\ tasks[k].id_tasks_book \in DOMAIN all_answers
          /\ tasks[k].answer = <<"z">>
          /\ tasks[m].id_tasks_book \notin DOMAIN all_answers

\* no line of the document equals the answers heading after normalization
NoSentinelLine ==
    \A k \in 1..Len(lines) : Normalize(lines[k]) # ANSWERS_HEADING

\* every task carries the default answer
AllUnanswered == \A k \in 1..Len(tasks) : tasks[k].answer = NO_ANSWER

\* C8 as stated: without the heading the returned task list is non-empty,
\* the mapping is empty and every answer is the default.
C8_Original ==
    (tpc = "done" /\ NoSentinelLine)
    => (tasks # <<>> /\ all_answers = EmptyMap /\ AllUnanswered)

\* C8 amended: without a line equal to the heading after normalization the
\* mapping is empty throughout and at the end of the scan, and every task
\* carries the default answer; the task list may be empty.
C8_NoSentinelNoAnswers ==
    (tpc \in {"scan", "done"} /\ NoSentinelLine)
    => (~answers_section /\ all_answers = EmptyMap /\ AllUnanswered)

\* C8 witness: the pass has returned two or more tasks from a document
\* without the heading that holds a line of packed answers
C8_Witness ==
    /\ tpc = "done" /\ NoSentinelLine /\ Len(tasks) >= 2
    /\ \E k \in 1..Len(lines) : lines[k] = LinePacked

\* C9: whatever the interleaving of the two passes, each returns what it
\* returns when run alone on the document.
C9_PassesIndependent ==
    /\ tpc = "done" => tasks = extract_tasks_from_docx(paragraphs)
    /\ opc = "done" => toc = extract_toc(paragraphs)

\* C9 witness: the outline pass has returned its nodes while the task pass
\* is in the middle of its loop, with a task emitted and a line to come
C9_Witness ==
    /\ opc = "done" /\ toc # <<>>
    /\ tpc = "scan" /\ i > 1 /\ i <= Len(lines) /\ tasks # <<>>

\* C10: save_tasks is called only when both passes have returned; after a
\* missing path, a wrong suffix or a raise of either pass it is never
\* called and nothing is written; the raise is caught, an error line is
\* printed and main ends with no exception in flight.
C10_NoSinkOnFailure ==
    /\ save_called => (tpc = "done" /\ opc = "done")
    /\ sink # <<>> => save_called
    /\ raised_in \in {"exists", "suffix", "tasks", "toc"}
          => (~save_called /\ sink = <<>>)
    /\ pc = "except" => exc \in {"FileNotFoundError", "ValueError", "Exception"}
    /\ (pc = "done" /\ raised_in \in {"exists", "suffix"})
          => (printed = "error" /\ exc = "none")
    /\ (pc = "done" /\ raised_in \in {"tasks", "toc"})
          => (printed = "unexpected" /\ exc = "none")
    /\ (pc = "done" /\ raised_in = "none") => (save_called /\ printed = "summary")

\* C10 witness: extract_toc raised after the task pass had returned tasks,
\* and main has ended
C10_Witness ==
    /\ pc = "done" /\ raised_in = "toc" /\ tasks # <<>>
    /\ printed = "unexpected" /\ ~save_called

\* C11 as stated: once save_tasks has been called it completes without
\* error and the workbook holds the three sheets in order, 'tasks' with the
\* columns id_tasks_book, task, answer, classes, topic_id, level and
\* 'table_of_contents' with the columns id, name, parent, also when the task
\* list or the outline is empty.
C11_EmptySetsWritten ==
    save_called
    => /\ raised_in # "save"
       /\ Len(sink) = 3
       /\ sink[1].sheet = "tasks"
       /\ sink[1].columns
             = <<"id_tasks_book", "task", "answer", "classes", "topic_id", "level">>
       /\ sink[2].sheet = "author"
       /\ sink[2].columns
             = <<"name", "author", "description", "topic_id", "classes">>
       /\ sink[3].sheet = "table_of_contents"
       /\ sink[3].columns = <<"id", "name", "parent">>

\* s begins 'N.': digits, then a dot
BeginsNumber(s) ==
    \E a \in 1..Len(s) : (\A p \in 1..a : IsDigit(s[p])) /\ At(s, a + 1, ".")

\* what follows the 'N.' of s, without the whitespace around it
AfterNumber(s) == Strip(From(s, Len(NumberOf(s)) + 2))

\* C12: in task mode a line beginning 'N.' whose next line begins
\* 'N.digits.' adds no record; a line beginning 'N.' that is not itself of
\* the three-level shape, has text after 'N.' and whose next line lacks that
\* shape for the same N (or which is the last line) adds exactly one record,
\* whose id is N or begins 'N.'.
C12_HeaderSuppression ==
    [][(ScansLine /\ ~answers_section /\ BeginsNumber(Normalize(lines[i])))
        => LET s == Normalize(lines[i])
               n == NumberOf(s)
           IN  IF DeeperFollows THEN tasks' = tasks
               ELSE (~DottedShape(s) /\ AfterNumber(s) # <<>>)
                    => /\ OneMore(tasks, tasks')
                       /\ \/ tasks'[Len(tasks')].id_tasks_book = n
                          \/ StartsWith(tasks'[Len(tasks')].id_tasks_book,
                                        n \o <<".">>)]_vars

\* C12 witness: '2. z 7' was followed by '1. x' and gave its record; '1. x'
\* was followed by '1.1. y' and gave none
C12_Witness ==
    /\ tpc = "scan" /\ ~answers_section /\ i = 3
    /\ lines = <<LineSecond, LineMain, LineThreeLevel>>
    /\ Len(tasks) = 1
    /\ tasks[1].id_tasks_book = <<"2">>

\* line k is followed by a line of the deeper form 'N.M.' for its own N
DeeperAt(k) ==
    /\ k + 1 <= Len(lines)
    /\ LET n == NumberOf(Normalize(lines[k]))
           t == lines[k + 1]
       IN  /\ StartsWith(t, n \o <<".">>)
           /\ \E b \in 1..Len(t) :
                 /\ \A p \in (Len(n) + 2)..(Len(n) + 1 + b) : AtIn(t, p, Digits)
                 /\ At(t, Len(n) + b + 2, ".")

\* no line up to line k is the answers heading: line k is read in task mode
TaskModeAt(k) == \A m \in 1..k : Normalize(lines[m]) # ANSWERS_HEADING

\* line k is recognized as a main task: read in task mode, it begins 'N.',
\* is not of the three-level shape and is not a section header
RecognizedMain(k) ==
    /\ TaskModeAt(k)
    /\ BeginsNumber(Normalize(lines[k]))
    /\ ~DottedShape(Normalize(lines[k]))
    /\ ~DeeperAt(k)

\* s is a sub-variant on its own line, 'letter) text'
LetterLine(s) == AtIn(s, 1, CyrLetters) /\ At(s, 2, ")") /\ Len(s) >= 3

\* s is a sub-variant on its own line, 'digits) text'
NumberedLine(s) ==
    \E d \in 1..Len(s) :
        /\ \A p \in 1..d : IsDigit(s[p])
        /\ At(s, d + 1, ")") /\ At(s, d + 2, " ") /\ Len(s) >= d + 3

\* the marker of a sub-variant line: what stands before its ')'
MarkerOf(s) == SubSeq(s, 1, (CHOOSE p \in 1..Len(s) : s[p] = ")" /\ \A q \in 1..(p - 1) : s[q] # ")") - 1)

\* the lines before line i that were recognized as main tasks
MainsBefore == {k \in 1..(i - 1) : RecognizedMain(k)}

\* C13 as stated: every record added for a sub-variant line has the id
\* 'M.variant' where M is the number of the last line before it that was
\* recognized as a main task; a line suppressed as a section header or
\* skipped as three-level is not such a line.
C13_AttachToLastMain ==
    [][(ScansLine /\ ~answers_section /\ tasks' # tasks
          /\ (LetterLine(Normalize(lines[i])) \/ NumberedLine(Normalize(lines[i]))))
        => /\ MainsBefore # {}
           /\ OneMore(tasks, tasks')
           /\ LET m == CHOOSE k \in MainsBefore : \A q \in MainsBefore : q <= k
              IN  tasks'[Len(tasks')].id_tasks_book
                     = NumberOf(Normalize(lines[m])) \o <<".">>
                          \o MarkerOf(Normalize(lines[i]))]_vars

\* no line before line i begins 'digits.'
NoNumberBefore == \A k \in 1..(i - 1) : ~BeginsNumber(Normalize(lines[k]))

\* C14: while no line beginning 'digits.' has been processed the current
\* main id is unset, and while it is unset a sub-variant line processed in
\* task mode ('letter) text' or 'digits) text') adds no record.
C14_NoMainNoVariant ==
    /\ []((tpc = "scan" /\ NoNumberBefore) => current_main_id = <<>>)
    /\ [][(ScansLine /\ ~answers_section /\ current_main_id = <<>>
             /\ (LetterLine(Normalize(lines[i]))
                   \/ NumberedLine(Normalize(lines[i]))))
           => tasks' = tasks]_vars

\* C14 witness: the letter sub-variant 'a) x' was the first line, it has
\* been processed and no task exists; a line is still to come
C14_Witness ==
    /\ tpc = "scan" /\ ~answers_section /\ i = 2 /\ Len(lines) = 3
    /\ lines[1] = LineLetter
    /\ tasks = <<>> /\ current_main_id = <<>>

\* line k is read in answers mode and is not itself the heading
AnswerLineAt(k) ==
    /\ Normalize(lines[k]) # ANSWERS_HEADING
    /\ \E m \in 1..(k - 1) : Normalize(lines[m]) = ANSWERS_HEADING

\* the (identifier, answer) pairs parsed from the answer lines among lines
\* 1..k, in reading order
RECURSIVE ParsedUpTo(_)
ParsedUpTo(k) ==
    IF k = 0 THEN <<>>
    ELSE ParsedUpTo(k - 1)
            \o (IF AnswerLineAt(k) THEN AnswerItems(Normalize(lines[k])) ELSE <<>>)

\* n is the last place of items at which its identifier is parsed
LastOfKey(items, n) ==
    \A q \in (n + 1)..Len(items) : items[q].key # items[n].key

\* C15: at every point of the scan the mapping holds exactly the
\* identifiers parsed so far, each with the value parsed last in reading
\* order; when the pass returns, every task whose id was parsed carries that
\* last value.
C15_LastWriteWins ==
    tpc \in {"scan", "done"}
    => LET items == ParsedUpTo(i - 1)
       IN  /\ DOMAIN all_answers = {items[n].key : n \in 1..Len(items)}
           /\ \A n \in 1..Len(items) :
                 LastOfKey(items, n)
                 => /\ all_answers[items[n].key] = items[n].value
                    /\ tpc = "done"
                       => \A t \in 1..Len(tasks) :
                             tasks[t].id_tasks_book = items[n].key
                             => tasks[t].answer = items[n].value

\* C15 witness: the pass has returned; an identifier was parsed twice, in
\* two lines, with different values, and a task with that id carries the
\* second
C15_Witness ==
    /\ tpc = "done" /\ Len(lines) = 4
    /\ AnswerItems(Normalize(lines[3])) # <<>>
    /\ LET items == ParsedUpTo(Len(lines))
       IN  \E a, b \in 1..Len(items) :
              /\ a < b /\ LastOfKey(items, b)
              /\ items[a].key = items[b].key
              /\ items[a].value # items[b].value
              /\ items[a] \in {AnswerItems(Normalize(lines[3]))[n] :
                                  n \in 1..Len(AnswerItems(Normalize(lines[3])))}
              /\ \E t \in 1..Len(tasks) :
                    /\ tasks[t].id_tasks_book = items[b].key
                    /\ tasks[t].answer = items[b].value

\* key is 'T.digits'
NumberedKey(key, T) ==
    /\ StartsWith(key, T \o <<".">>) /\ Len(key) > Len(T) + 1
    /\ \A p \in (Len(T) + 2)..Len(key) : IsDigit(key[p])

\* key is 'T.letter'
LetterKey(key, T) ==
    /\ StartsWith(key, T \o <<".">>) /\ Len(key) = Len(T) + 2
    /\ key[Len(key)] \in CyrLetters

\* t begins, after whitespace, with one letter or digit and ')'
BeginsWithMarker(t) ==
    \E p \in 1..Len(t) :
        /\ \A q \in 1..(p - 1) : IsSpace(t[q])
        /\ t[p] \in CyrLetters \cup Digits
        /\ At(t, p + 1, ")")

\* the writes of one segment are of one kind: one key 'T.digits' for every
\* match of the numbered pattern when it matches; else one key 'T.letter'
\* for every match of the letter pattern when it matches; else the bare key
\* T alone, and only for a non-empty remainder that begins with no marker
SegmentOfOneKind(part) ==
    LET T == TaskMatch(part).task_num
        t == TaskMatch(part).answer_text
        items == PartItems(part)
        numbered == NumberedVariants(t, 1)
        letter == LetterVariants(t, 1)
    IN  IF ~TaskMatch(part).ok THEN items = <<>>
        ELSE /\ numbered # <<>>
                => /\ Len(items) = Len(numbered)
                   /\ \A n \in 1..Len(items) :
                         items[n].key = T \o <<".">> \o numbered[n].variant
                         /\ NumberedKey(items[n].key, T)
             /\ (numbered = <<>> /\ letter # <<>>)
                => /\ Len(items) = Len(letter)
                   /\ \A n \in 1..Len(items) :
                         items[n].key = T \o <<".">> \o letter[n].variant
                         /\ LetterKey(items[n].key, T)
             /\ (numbered = <<>> /\ letter = <<>>)
                => IF t # <<>> /\ ~BeginsWithMarker(t)
                   THEN Len(items) = 1 /\ items[1].key = T
                   ELSE items = <<>>
             /\ \/ \A n \in 1..Len(items) : items[n].key = T
                \/ \A n \in 1..Len(items) : NumberedKey(items[n].key, T)
                \/ \A n \in 1..Len(items) : LetterKey(items[n].key, T)

\* C16: every segment of a line processed in answers mode writes keys of
\* one kind only (numbered pattern first, letter pattern only if the
\* numbered one matched nothing, the bare key only if neither matched and
\* the remainder is non-empty and begins with no marker), and the keys the
\* step adds to the mapping are those of its segments.
C16_OneKindPerSegment ==
    [][(ScansLine /\ answers_section
          /\ Normalize(lines[i]) # ANSWERS_HEADING)
        => LET parts == SplitParts(Normalize(lines[i]), 1, 1)
           IN  /\ \A n \in 1..Len(parts) : SegmentOfOneKind(parts[n])
               /\ DOMAIN all_answers'
                     = DOMAIN all_answers
                         \cup UNION {{PartItems(parts[n])[q].key :
                                          q \in 1..Len(PartItems(parts[n]))} :
                                      n \in 1..Len(parts)}]_vars

\* C16 witness: '1. 2) y a) x' has been processed in answers mode and left
\* the key '1.2' alone, with the letter marker inside its answer
C16_Witness ==
    /\ tpc = "done" /\ Len(lines) = 4 /\ lines[4] = LineMixed
    /\ DOMAIN all_answers = {<<"1", ".", "2">>}
    /\ all_answers[<<"1", ".", "2">>] = From(LineMixed, 7)
    /\ Len(tasks) = 2 /\ tasks[2].answer = From(LineMixed, 7)

\* the text of paragraph k contains the outline heading
HasHeading(k) == Contains(Strip(paragraphs[k]), TOC_HEADING)

\* the text of paragraph k has the numeric-prefix shape: it begins with
\* digits followed by a dot or whitespace
HasNumericPrefix(k) ==
    LET t == Strip(paragraphs[k])
    IN  \E a \in 1..Len(t) :
           (\A p \in 1..a : IsDigit(t[p])) /\ AtIn(t, a + 1, {".", " ", "\t", "\n"})

\* the first paragraph that contains the outline heading, 0 when none does
Entry ==
    IF \E k \in 1..Len(paragraphs) : HasHeading(k)
    THEN CHOOSE k \in 1..Len(paragraphs) :
            HasHeading(k) /\ \A m \in 1..(k - 1) : ~HasHeading(m)
    ELSE 0

\* the step of the outline pass adds a node, for paragraph j
AddsNode == opc = "scan" /\ Len(toc') > Len(toc)

\* C17 as stated: a node is added only for a line after the first heading,
\* and only if every line between that heading and it matches the
\* numeric-prefix shape.
C17_Original ==
    [][AddsNode
        => /\ Entry # 0 /\ Entry < j
           /\ \A m \in (Entry + 1)..(j - 1) : HasNumericPrefix(m)]_vars

\* C17 amended: a node is added only for a line after the first heading
\* that matches the shape and does not contain the heading, and only if
\* every line between the first heading and it matches the shape or
\* contains the heading; once a line after the first heading that does
\* neither has been processed the scan has stopped: no further line is
\* processed and no node added.
C17_OutlineStops ==
    /\ [][AddsNode
           => /\ Entry # 0 /\ Entry < j
              /\ HasNumericPrefix(j) /\ ~HasHeading(j)
              /\ \A m \in (Entry + 1)..(j - 1) :
                    HasNumericPrefix(m) \/ HasHeading(m)]_vars
    /\ []((opc # "idle" /\ Entry # 0
            /\ \E m \in (Entry + 1)..(j - 1) :
                  ~HasNumericPrefix(m) /\ ~HasHeading(m))
          => toc_stop)
    /\ [][toc_stop => (j' = j /\ Len(toc') = Len(toc) /\ toc_stop')]_vars

\* C17 witness: the heading, free prose, then '1. x': the pass has returned
\* no node and never processed the third paragraph
C17_Witness ==
    /\ opc = "done" /\ toc_stop /\ toc = <<>>
    /\ paragraphs = <<TOC_HEADING, LineProse, LineMain>>
    /\ j = 3

\* s matches none of the patterns of the grammar: it does not begin
\* 'digits.' and is no sub-variant line
MatchesNoPattern(s) == ~BeginsNumber(s) /\ ~LetterLine(s) /\ ~NumberedLine(s)

\* C18: in task mode a line other than the answers heading that matches
\* none of the grammar patterns, and likewise a line of the three-level
\* shape, leaves the task list, the current main id, the mode and the
\* answer mapping unchanged, and raises nothing.
C18_UnmatchedLineIgnored ==
    [][(ScansLine /\ ~answers_section
          /\ Normalize(lines[i]) # ANSWERS_HEADING
          /\ (MatchesNoPattern(Normalize(lines[i]))
                \/ DottedShape(Normalize(lines[i]))))
        => /\ UNCHANGED <<tasks, current_main_id, answers_section, all_answers>>
           /\ exc' = "none" /\ pc' = "extract" /\ tpc' = "scan"]_vars

\* C18 witness: free prose has just been processed in task mode after a main
\* task, whose record and id are still there; a line is still to come
C18_Witness ==
    /\ tpc = "scan" /\ ~answers_section /\ i = 3 /\ Len(lines) = 3
    /\ lines[1] = LineMain /\ lines[2] = LineProse
    /\ Len(tasks) = 1 /\ current_main_id = <<"1">>
    /\ exc = "none"

\* C19: while the lines are scanned every record carries the default answer
\* and a step of the scan leaves every existing record as it is, in its
\* place; the merge step keeps the number and the order of the records and
\* every field but answer, and sets answer to the mapping's value for the
\* record's exact id when the mapping has one; after it no record changes.
C19_RecordsImmutable ==
    /\ [](tpc = "scan" => AllUnanswered)
    /\ [][ScansLine
           => (Len(tasks') >= Len(tasks) /\ SubSeq(tasks', 1, Len(tasks)) = tasks)]_vars
    /\ [][(tpc = "scan" /\ tpc' = "done")
           => /\ Len(tasks') = Len(tasks)
              /\ \A k \in 1..Len(tasks) :
                    /\ [tasks'[k] EXCEPT !.answer = NO_ANSWER] = tasks[k]
                    /\ tasks'[k].answer
                          = IF tasks[k].id_tasks_book \in DOMAIN all_answers
                            THEN all_answers[tasks[k].id_tasks_book]
                            ELSE NO_ANSWER]_vars
    /\ [][tpc = "done" => tasks' = tasks]_vars

\* C19 witness: the last line has been processed and the merge has not run
\* yet: the mapping holds an answer for a task, which still carries the
\* default answer, next to a task the mapping has no answer for
C19_Witness ==
    /\ tpc = "scan" /\ i = Len(lines) + 1
    /\ \E k, m \in 1..Len(tasks) :
          /\ tasks[k].id_tasks_book \in DOMAIN all_answers
          /\ tasks[k].answer = NO_ANSWER
          /\ tasks[m].id_tasks_book \notin DOMAIN all_answers

\* s is a main number alone: digits and a dot, nothing after
BareNumber(s) ==
    /\ Len(s) >= 2 /\ s[Len(s)] = "."
    /\ \A p \in 1..(Len(s) - 1) : IsDigit(s[p])

\* C20: in task mode a line 'N.' with nothing after the dot adds no record
\* and sets the current main id to N; a sub-variant line that comes right
\* after it adds exactly one record, with the id 'N.variant'.
C20_BareNumberSetsMain ==
    /\ [][(ScansLine /\ ~answers_section /\ BareNumber(Normalize(lines[i])))
           => /\ tasks' = tasks
              /\ current_main_id'
                    = SubSeq(Normalize(lines[i]), 1, Len(Normalize(lines[i])) - 1)]_vars
    /\ [][(ScansLine /\ ~answers_section /\ i > 1
             /\ BareNumber(Normalize(lines[i - 1]))
             /\ (LetterLine(Normalize(lines[i]))
                   \/ NumberedLine(Normalize(lines[i]))))
           => /\ OneMore(tasks, tasks')
              /\ tasks'[Len(tasks')].id_tasks_book
                    = Normalize(lines[i - 1]) \o MarkerOf(Normalize(lines[i]))]_vars

\* C20 witness: '1.' alone gave no record, and the sub-variant 'a) x' after
\* it gave the record '1.a'
C20_Witness ==
    /\ tpc = "scan" /\ ~answers_section /\ i = 3
    /\ lines[1] = LineBareMain /\ lines[2] = LineLetter
    /\ Len(tasks) = 1
    /\ tasks[1].id_tasks_book = <<"1", ".", "ru:a">>
    /\ current_main_id = <<"1">>
====
